---- MODULE Spec2Model ----
(***************************************************************************)
(* Trading journal (src/app.py): the trade log kept in the Streamlit       *)
(* session, the derived columns (streaks, rolling win rate), the           *)
(* fixed-window state prediction, the best-effort spreadsheet write and    *)
(* the calendar month navigation.                                          *)
(*                                                                         *)
(* Representation.  A DataFrame is a sequence of rows; a row is a record   *)
(* with the columns of the sheet.  A float that is a quotient of small     *)
(* integers (WinRate, a mean) is an exact fraction [num, den] in lowest    *)
(* terms; a confidence is kept in hundredths (0.65 -> 65).  Date of a      *)
(* trade is the reading of the session clock `now`.                        *)
(***************************************************************************)
EXTENDS Integers, Sequences, FiniteSets, TLC

VARIABLES
    trades,         \* st.session_state.trades
    nLoaded,        \* rows of trades that came from load_trade_history_from_sheet
    gsheet,         \* the spreadsheet service in this session: a member of WriteModes
    sheet,          \* rows this session appended to sheet1 of TradingHistory
    lastError,      \* what the last submission's run reported through st.error
    prediction,     \* what the dashboard shows: predict_state(trades), or NoDisplay
    now,            \* session clock: datetime.now() of the next submission
    calendar_date,  \* st.session_state.calendar_date
    button          \* the calendar button pressed in the last run

vars == <<trades, nLoaded, gsheet, sheet, lastError, prediction, now, calendar_date, button>>

\* ------------------------------------------------------------------ bounds
MaxTrades == 8
MaxLoaded == 1
FirstYear == 2023
LastYear == 2025

\* ------------------------------------------------------- program constants
Window == 5
MinPeriods == 1
TailLen == 5

Outcomes == {0, 1}
\* what the form submits: a win with its gain, a loss with its loss
FormInputs == {[win_lose |-> 1, gain |-> 120], [win_lose |-> 0, gain |-> -50]}
States == {"Good", "Neutral", "Bad"}
WriteModes == {"ok", "no_client", "open_fails", "append_fails"}

\* -------------------------------------------------------------- fractions
RECURSIVE Gcd(_, _)
Gcd(a, b) == IF b = 0 THEN a ELSE Gcd(b, a % b)

Abs(x) == IF x < 0 THEN -x ELSE x

Frac(n, d) ==
    LET g == Gcd(Abs(n), d)
    IN  [num |-> n \div g, den |-> d \div g]

FracLess(a, b) == a.num * b.den < b.num * a.den

Whole(n) == Frac(n, 1)

\* -------------------------------------------------------------- sequences
RECURSIVE SumSeq(_)
SumSeq(s) == IF s = <<>> THEN 0 ELSE s[1] + SumSeq(Tail(s))

\* a function on 1..n as the tuple of its values
AsSeq(f, n) == SubSeq(f, 1, n)

Column(df, col) == AsSeq([i \in 1..Len(df) |-> df[i][col]], Len(df))

LastRow(df) == df[Len(df)]

\* Series.tail(n): the last n values, all of them when there are fewer.
TailN(s, n) ==
    IF Len(s) <= n THEN s ELSE SubSeq(s, Len(s) - n + 1, Len(s))

\* Series.mean() * 100 of a non-empty series of integers.
MeanPercent(s) == Frac(100 * SumSeq(s), Len(s))

\* ------------------------------------------------------------ core logic
RECURSIVE StreakRun(_, _, _, _)
\* the loop of calculate_streaks: <<win_streaks, loss_streaks>> from position i on
StreakRun(outcomes, i, current_win, current_loss) ==
    IF i > Len(outcomes) THEN <<>>
    ELSE LET w == IF outcomes[i] = 1 THEN current_win + 1 ELSE 0
             l == IF outcomes[i] = 1 THEN 0 ELSE current_loss + 1
         IN  <<[win |-> w, loss |-> l]>> \o StreakRun(outcomes, i + 1, w, l)

RECURSIVE StreakRunKeepLoss(_, _, _, _)
\* the loop with the reset of current_loss on a win left out
StreakRunKeepLoss(outcomes, i, current_win, current_loss) ==
    IF i > Len(outcomes) THEN <<>>
    ELSE LET w == IF outcomes[i] = 1 THEN current_win + 1 ELSE 0
             l == IF outcomes[i] = 1 THEN current_loss ELSE current_loss + 1
         IN  <<[win |-> w, loss |-> l]>> \o StreakRunKeepLoss(outcomes, i + 1, w, l)

RECURSIVE StreakRunNoLossCount(_, _, _, _)
\* the loop with the increment of current_loss on a loss left out
StreakRunNoLossCount(outcomes, i, current_win, current_loss) ==
    IF i > Len(outcomes) THEN <<>>
    ELSE LET w == IF outcomes[i] = 1 THEN current_win + 1 ELSE 0
             l == IF outcomes[i] = 1 THEN 0 ELSE current_loss
         IN  <<[win |-> w, loss |-> l]>> \o StreakRunNoLossCount(outcomes, i + 1, w, l)

WithStreaks(df, run) ==
    AsSeq([i \in 1..Len(df) |->
              [df[i] EXCEPT !.WinningStreak = run[i].win, !.LosingStreak = run[i].loss]],
          Len(df))

calculate_streaks_keep_loss(df) ==
    IF df = <<>> THEN df
    ELSE WithStreaks(df, StreakRunKeepLoss(Column(df, "WinLose"), 1, 0, 0))

calculate_streaks_no_loss_count(df) ==
    IF df = <<>> THEN df
    ELSE WithStreaks(df, StreakRunNoLossCount(Column(df, "WinLose"), 1, 0, 0))

calculate_streaks(df) ==
    IF df = <<>> THEN df
    ELSE WithStreaks(df, StreakRun(Column(df, "WinLose"), 1, 0, 0))

\* Series.rolling(window, min_periods).mean().fillna(0.5) * 100 at row i:
\* the mean of the rows of the trailing window that exist, NaN (filled with
\* 0.5) when fewer than min_periods of them do.
RollingPercent(series, i, window, min_periods) ==
    LET lo == IF i - window + 1 < 1 THEN 1 ELSE i - window + 1
        obs == SubSeq(series, lo, i)
    IN  IF Len(obs) < min_periods THEN Frac(100, 2)
        ELSE MeanPercent(obs)

WithWinRate(df, window, min_periods) ==
    LET series == Column(df, "WinLose")
    IN  AsSeq([i \in 1..Len(df) |->
                  [df[i] EXCEPT !.WinRate =
                      RollingPercent(series, i, window, min_periods)]],
              Len(df))

calculate_win_rate_full_window(df) ==
    IF df = <<>> THEN df ELSE WithWinRate(df, Window, Window)

calculate_win_rate(df) ==
    IF df = <<>> THEN df ELSE WithWinRate(df, Window, MinPeriods)

\* the three-way comparison at the end of predict_state
Classify(win_rate) ==
    IF FracLess(Whole(50), win_rate) THEN <<"Good", 90>>
    ELSE IF FracLess(win_rate, Whole(50)) THEN <<"Bad", 95>>
    ELSE <<"Neutral", 65>>

\* the threshold rule of other revisions, read from the last row's columns
predict_state_threshold(df) ==
    IF df = <<>> THEN <<"Neutral", 65>>
    ELSE LET latest == LastRow(df)
         IN  IF latest.LosingStreak >= 2 \/ FracLess(latest.WinRate, Whole(45))
             THEN <<"Bad", 95>>
             ELSE IF latest.WinningStreak >= 2 /\ FracLess(Whole(45), latest.WinRate)
             THEN <<"Good", 90>>
             ELSE <<"Neutral", 65>>

\* the mean taken over the whole log instead of its last 5 rows
predict_state_whole_log(df) ==
    IF df = <<>> THEN <<"Neutral", 65>>
    ELSE IF Len(df) < TailLen THEN <<"Neutral", 65>>
    ELSE Classify(MeanPercent(Column(df, "WinLose")))

\* head(5) instead of tail(5)
predict_state_head(df) ==
    IF df = <<>> THEN <<"Neutral", 65>>
    ELSE LET first_5 == SubSeq(Column(df, "WinLose"), 1,
                               IF Len(df) < TailLen THEN Len(df) ELSE TailLen)
         IN  IF Len(first_5) < TailLen THEN <<"Neutral", 65>>
             ELSE Classify(MeanPercent(first_5))

\* a window of 4 rows instead of 5
predict_state_window_4(df) ==
    IF df = <<>> THEN <<"Neutral", 65>>
    ELSE LET last_4 == TailN(Column(df, "WinLose"), TailLen - 1)
         IN  IF Len(last_4) < TailLen - 1 THEN <<"Neutral", 65>>
             ELSE Classify(MeanPercent(last_4))

predict_state(df) ==
    IF df = <<>> THEN <<"Neutral", 65>>
    ELSE LET last_5 == TailN(Column(df, "WinLose"), TailLen)
         IN  IF Len(last_5) < TailLen THEN <<"Neutral", 65>>
             ELSE Classify(MeanPercent(last_5))

\* ------------------------------------------------------- spreadsheet write
\* get_gsheet_client: the client, or None after reporting the connection error
get_gsheet_client(mode) ==
    IF mode = "no_client"
    THEN [client |-> FALSE, error |-> "connection"]
    ELSE [client |-> TRUE, error |-> "none"]

\* save_trade_to_sheet with the try/except around open and append_row left out
save_trade_to_sheet_no_except(rows, trade_data, mode) ==
    LET c == get_gsheet_client(mode)
    IN  IF ~c.client
        THEN [sheet |-> rows, error |-> c.error, raised |-> FALSE]
        ELSE IF mode \in {"open_fails", "append_fails"}
        THEN [sheet |-> rows, error |-> "none", raised |-> TRUE]
        ELSE [sheet |-> Append(rows, trade_data), error |-> "none", raised |-> FALSE]

\* save_trade_to_sheet: the sheet afterwards, the error it reported, and
\* whether an exception left the function
save_trade_to_sheet(rows, trade_data, mode) ==
    LET c == get_gsheet_client(mode)
    IN  IF ~c.client
        THEN [sheet |-> rows, error |-> c.error, raised |-> FALSE]
        ELSE IF mode \in {"open_fails", "append_fails"}
        THEN [sheet |-> rows, error |-> "save", raised |-> FALSE]
        ELSE [sheet |-> Append(rows, trade_data), error |-> "none", raised |-> FALSE]

\* ------------------------------------------------------------ the session
NoDisplay == <<"none", 0>>

\* the dashboard of main: the prediction banner, or the "no trades" note
Dashboard(df) == IF df = <<>> THEN NoDisplay ELSE predict_state(df)

\* the row the form builds, with its placeholder derived columns
NewTrade(date, win_lose, gain) ==
    [Date |-> date, WinLose |-> win_lose, Gain |-> gain,
     WinningStreak |-> 0, LosingStreak |-> 0,
     WinRate |-> Whole(0), TradingState |-> "Neutral"]

\* updated_df with the prediction written to the whole Trading State column
UpdatedDfWholeColumn(df, new_trade) ==
    LET derived == calculate_streaks(calculate_win_rate(Append(df, new_trade)))
        p == predict_state(derived)
    IN  AsSeq([i \in 1..Len(derived) |-> [derived[i] EXCEPT !.TradingState = p[1]]],
              Len(derived))

\* updated_df of the submit handler: concat, recompute, predict, write the
\* prediction to the last row
UpdatedDf(df, new_trade) ==
    LET derived == calculate_streaks(calculate_win_rate(Append(df, new_trade)))
        p == predict_state(derived)
    IN  [derived EXCEPT ![Len(derived)].TradingState = p[1]]

\* a row as load_trade_history_from_sheet hands it over
LoadedRow(win_lose, gain, state) ==
    [Date |-> 0, WinLose |-> win_lose, Gain |-> gain,
     WinningStreak |-> 0, LosingStreak |-> 0,
     WinRate |-> Whole(0), TradingState |-> state]

RECURSIVE SeqsUpTo(_, _)
SeqsUpTo(S, n) ==
    IF n = 0 THEN {<<>>}
    ELSE LET shorter == SeqsUpTo(S, n - 1)
         IN  shorter \cup {Append(s, x) : s \in {t \in shorter : Len(t) = n - 1}, x \in S}

\* the rows the sheet may hold when the session starts (no Gain column:
\* the loader's default 0)
StoredRows == {LoadedRow(o, 0, st) : o \in Outcomes, st \in States}

\* load_trade_history_from_sheet: the rows, or an empty frame when there is
\* no client or open raises
load_trade_history_from_sheet(stored, mode) ==
    IF ~get_gsheet_client(mode).client THEN <<>>
    ELSE IF mode = "open_fails" THEN <<>>
    ELSE stored

\* 'trades' not in st.session_state: load, recompute when not empty
InitialTrades(loaded) ==
    IF loaded # <<>> THEN calculate_streaks(calculate_win_rate(loaded)) ELSE <<>>

Today == [year |-> 2024, month |-> 1, day |-> 31]

InitSession ==
    /\ gsheet \in WriteModes
    /\ \E stored \in SeqsUpTo(StoredRows, MaxLoaded) :
          LET loaded == load_trade_history_from_sheet(stored, gsheet)
          IN  /\ trades = InitialTrades(loaded)
              /\ nLoaded = Len(loaded)
    /\ sheet = <<>>
    /\ lastError = "none"
    /\ prediction = Dashboard(trades)
    /\ now = 1

Init ==
    /\ InitSession
    /\ calendar_date = Today
    /\ button = "none"

\* "Save Trade" pressed with the form's outcome and gain
SubmitTrade ==
    /\ Len(trades) < MaxTrades
    /\ \E form \in FormInputs :
          LET updated_df == UpdatedDf(trades, NewTrade(now, form.win_lose, form.gain))
              trade_data == LastRow(updated_df)
              saved == save_trade_to_sheet(sheet, trade_data, gsheet)
          IN  /\ trades' = updated_df
              /\ sheet' = saved.sheet
              /\ IF saved.raised
                 THEN /\ lastError' = "uncaught"
                      /\ prediction' = prediction
                 ELSE /\ lastError' = saved.error
                      /\ prediction' = Dashboard(updated_df)
    /\ now' = now + 1
    /\ UNCHANGED <<nLoaded, gsheet, calendar_date, button>>

Next == SubmitTrade

Spec == Init /\ [][Next]_vars

\* ----------------------------------------------------------- the calendar
IsLeap(y) == (y % 4 = 0 /\ y % 100 # 0) \/ y % 400 = 0

DaysInMonth(y, m) ==
    IF m = 2 THEN (IF IsLeap(y) THEN 29 ELSE 28)
    ELSE IF m \in {4, 6, 9, 11} THEN 30
    ELSE 31

Date(y, m, d) == [year |-> y, month |-> m, day |-> d]

NextDay(dt) ==
    IF dt.day < DaysInMonth(dt.year, dt.month) THEN Date(dt.year, dt.month, dt.day + 1)
    ELSE IF dt.month < 12 THEN Date(dt.year, dt.month + 1, 1)
    ELSE Date(dt.year + 1, 1, 1)

PrevDay(dt) ==
    IF dt.day > 1 THEN Date(dt.year, dt.month, dt.day - 1)
    ELSE IF dt.month > 1
    THEN Date(dt.year, dt.month - 1, DaysInMonth(dt.year, dt.month - 1))
    ELSE Date(dt.year - 1, 12, 31)

RECURSIVE PlusDays(_, _)
\* date + timedelta(days=n)
PlusDays(dt, n) == IF n = 0 THEN dt ELSE PlusDays(NextDay(dt), n - 1)

RECURSIVE MinusDays(_, _)
\* date - timedelta(days=n)
MinusDays(dt, n) == IF n = 0 THEN dt ELSE MinusDays(PrevDay(dt), n - 1)

\* date.replace(day=d)
ReplaceDay(dt, d) == Date(dt.year, dt.month, d)

\* the "Previous Month" branch of create_trade_calendar
PreviousMonthDate(selected_date) == MinusDays(selected_date, selected_date.day)

\* the "Next Month" branch of create_trade_calendar
NextMonthDate(selected_date) ==
    LET next_month == PlusDays(ReplaceDay(selected_date, 28), 4)
    IN  MinusDays(next_month, next_month.day)

Years == FirstYear..LastYear

Dates == {dt \in [year : Years, month : 1..12, day : 1..31] :
              dt.day <= DaysInMonth(dt.year, dt.month)}

\* a session with no history: only the calendar is used
InitCal ==
    /\ gsheet = "no_client"
    /\ trades = load_trade_history_from_sheet(<<>>, gsheet)
    /\ nLoaded = 0
    /\ sheet = <<>>
    /\ lastError = "none"
    /\ prediction = Dashboard(trades)
    /\ now = 1
    /\ calendar_date \in Dates
    /\ button = "none"

PressPreviousMonth ==
    /\ PreviousMonthDate(calendar_date).year >= FirstYear
    /\ calendar_date' = PreviousMonthDate(calendar_date)
    /\ button' = "previous"
    /\ UNCHANGED <<trades, nLoaded, gsheet, sheet, lastError, prediction, now>>

PressNextMonth ==
    /\ NextMonthDate(calendar_date).year <= LastYear
    /\ calendar_date' = NextMonthDate(calendar_date)
    /\ button' = "next"
    /\ UNCHANGED <<trades, nLoaded, gsheet, sheet, lastError, prediction, now>>

NextCal == PressPreviousMonth \/ PressNextMonth

SpecCal == InitCal /\ [][NextCal]_vars

\* months since year 0
MonthIndex(dt) == 12 * dt.year + dt.month

\* C10: pressing "Next Month" sets calendar_date to a date of the month right
\* after the current one, as "Previous Month" sets it to a date of the month
\* right before.
C10_NextMonthAdvances ==
    [][/\ (button' = "next" =>
              MonthIndex(calendar_date') = MonthIndex(calendar_date) + 1)
       /\ (button' = "previous" =>
              MonthIndex(calendar_date') = MonthIndex(calendar_date) - 1)]_vars

\* ------------------------------------------------- the claims on the log
Outs == Column(trades, "WinLose")

\* the number of wins among outcomes lo..hi
Wins(outs, lo, hi) == Cardinality({j \in lo..hi : outs[j] = 1})

\* the fixed-window result read off the raw outcomes
FixedWindowResult(outs) ==
    LET n == Len(outs)
    IN  IF n < 5 THEN <<"Neutral", 65>>
        ELSE IF 100 * Wins(outs, n - 4, n) > 50 * 5 THEN <<"Good", 90>>
        ELSE IF 100 * Wins(outs, n - 4, n) < 50 * 5 THEN <<"Bad", 95>>
        ELSE <<"Neutral", 65>>

\* other contents of the derived columns, the same in every row
ColumnFills ==
    {[WinningStreak |-> 0, LosingStreak |-> 0, WinRate |-> Whole(0), TradingState |-> "Neutral"],
     [WinningStreak |-> 0, LosingStreak |-> 4, WinRate |-> Whole(20), TradingState |-> "Bad"],
     [WinningStreak |-> 3, LosingStreak |-> 0, WinRate |-> Whole(80), TradingState |-> "Good"]}

Refill(df, fill) ==
    AsSeq([i \in 1..Len(df) |->
              [df[i] EXCEPT !.WinningStreak = fill.WinningStreak,
                            !.LosingStreak = fill.LosingStreak,
                            !.WinRate = fill.WinRate,
                            !.TradingState = fill.TradingState]],
          Len(df))

FlipOutcome(df, i) == [df EXCEPT ![i].WinLose = 1 - df[i].WinLose]

\* C1: predict_state returns the fixed-window result: (Neutral, 0.65) on an
\* empty log or one of fewer than 5 trades, otherwise (Good, 0.90), (Bad, 0.95)
\* or (Neutral, 0.65) as the mean of the last 5 outcomes is above, below or
\* equal to 50%; outcomes older than the last 5 and the stored streak, WinRate
\* and Trading State columns never change the result.
C1_FixedWindow ==
    /\ predict_state(<<>>) = <<"Neutral", 65>>
    /\ trades # <<>> => prediction = FixedWindowResult(Outs)
    /\ \A fill \in ColumnFills :
          predict_state(Refill(trades, fill)) = FixedWindowResult(Outs)
    /\ \A i \in 1..(Len(trades) - 5) :
          predict_state(FlipOutcome(trades, i)) = predict_state(trades)

\* a log of 6 trades whose last 5 hold 3 wins, with an older loss and a
\* losing streak of 2 at its end
C1_Witness ==
    /\ Len(trades) = 6
    /\ Outs = <<0, 1, 1, 1, 0, 0>>
    /\ LastRow(trades).LosingStreak = 2
    /\ prediction = <<"Good", 90>>

\* C2 as stated: on a non-empty log, Losing Streak >= 2 or WinRate < 45 in the
\* most recent record makes predict_state return (Bad, 0.95).
C2_ThresholdRule ==
    trades # <<>> =>
        (LastRow(trades).LosingStreak >= 2 \/ FracLess(LastRow(trades).WinRate, Whole(45))
            => prediction = <<"Bad", 95>>)

\* C2 amended: on a log of at least 5 trades, Losing Streak >= 3 or
\* WinRate < 45 in the most recent record makes predict_state return
\* (Bad, 0.95).
C2_Amended ==
    Len(trades) >= 5 =>
        (LastRow(trades).LosingStreak >= 3 \/ FracLess(LastRow(trades).WinRate, Whole(45))
            => prediction = <<"Bad", 95>>)

\* both halves of the premise on their own: a win rate of 40 with no losing
\* streak, and a losing streak of 3
C2_Witness ==
    /\ Len(trades) = 6
    /\ Outs = <<1, 1, 0, 0, 0, 1>>
    /\ trades[5].LosingStreak = 3
    /\ LastRow(trades).LosingStreak = 0
    /\ LastRow(trades).WinRate = Whole(40)
    /\ prediction = <<"Bad", 95>>

\* the number of consecutive outcomes equal to outs[i] that end at i
RECURSIVE RunLength(_, _)
RunLength(outs, i) ==
    IF i = 1 \/ outs[i - 1] # outs[i] THEN 1 ELSE 1 + RunLength(outs, i - 1)

\* C3: calculate_streaks follows the streak recurrence at every index, each
\* streak is the count of consecutive identical outcomes ending there, and the
\* output is as long as the input (empty in, empty out).
C3_StreakRecurrence ==
    /\ calculate_streaks(<<>>) = <<>>
    /\ Len(calculate_streaks(trades)) = Len(trades)
    /\ \A i \in 1..Len(trades) :
          LET prevWin == IF i = 1 THEN 0 ELSE trades[i - 1].WinningStreak
              prevLoss == IF i = 1 THEN 0 ELSE trades[i - 1].LosingStreak
          IN  IF trades[i].WinLose = 1
              THEN /\ trades[i].WinningStreak = prevWin + 1
                   /\ trades[i].LosingStreak = 0
                   /\ trades[i].WinningStreak = RunLength(Outs, i)
              ELSE /\ trades[i].LosingStreak = prevLoss + 1
                   /\ trades[i].WinningStreak = 0
                   /\ trades[i].LosingStreak = RunLength(Outs, i)

\* a loaded row and submissions with a winning run of 3, a reset and a
\* losing run of 2
C3_Witness ==
    /\ nLoaded = 1
    /\ Outs = <<1, 1, 1, 0, 0, 1>>
    /\ trades[3].WinningStreak = 3
    /\ trades[5].LosingStreak = 2
    /\ trades[6].WinningStreak = 1

\* C4: in every session state every record of the log has exactly one of
\* Winning Streak and Losing Streak nonzero and the other 0; the appended
\* record never keeps its placeholder 0/0.
C4_OneStreakNonzero ==
    \A i \in 1..Len(trades) :
        \/ trades[i].WinningStreak > 0 /\ trades[i].LosingStreak = 0
        \/ trades[i].WinningStreak = 0 /\ trades[i].LosingStreak > 0

\* a loaded history and two submissions, the last one a loss
C4_Witness ==
    /\ nLoaded = 1
    /\ Len(trades) >= 3
    /\ LastRow(trades).WinLose = 0
    /\ LastRow(trades).LosingStreak > 0

\* C5: WinRate[i] = 100 * wins / count over outcome[max(0, i-4)..i], a
\* shrinking window on a short prefix; it lies in [0, 100], is 100 on an
\* all-win sequence and 0 on an all-loss one.
C5_RollingWinRate ==
    \A i \in 1..Len(trades) :
        LET lo == IF i - 4 < 1 THEN 1 ELSE i - 4
            count == i - lo + 1
            wins == Wins(Outs, lo, i)
            rate == trades[i].WinRate
        IN  /\ rate.den > 0
            /\ rate.num * count = 100 * wins * rate.den
            /\ 0 <= rate.num /\ rate.num <= 100 * rate.den
            /\ (\A j \in 1..i : Outs[j] = 1) => rate = Whole(100)
            /\ (\A j \in 1..i : Outs[j] = 0) => rate = Whole(0)

\* a single win rated 100, a prefix of three rated 100/3, and a sixth row
\* rated 0 although the log holds a win
C5_Witness ==
    /\ Outs = <<1, 0, 0, 0, 0, 0>>
    /\ trades[1].WinRate = Whole(100)
    /\ trades[3].WinRate = [num |-> 100, den |-> 3]
    /\ trades[6].WinRate = Whole(0)

\* the first n rows of a frame
Prefix(df, n) == SubSeq(df, 1, n)

\* C6: a submission lengthens the log by exactly 1, writes the Trading State
\* of the new record only (predict_state of the log including it) and leaves
\* the stored Trading State, outcome, gain and date of every earlier record
\* unchanged; so the stored state of a record appended in the session is
\* still the value it received when it was appended.
C6_AppendOnlyFrozenState ==
    /\ [][/\ Len(trades') = Len(trades) + 1
          /\ \A i \in 1..Len(trades) :
                /\ trades'[i].TradingState = trades[i].TradingState
                /\ trades'[i].WinLose = trades[i].WinLose
                /\ trades'[i].Gain = trades[i].Gain
                /\ trades'[i].Date = trades[i].Date
          /\ LastRow(trades').TradingState = predict_state(trades')[1]]_vars
    /\ [](\A i \in (nLoaded + 1)..Len(trades) :
             trades[i].TradingState = predict_state(Prefix(trades, i))[1])

\* a loaded row stored Good, then submissions stored Neutral, Good and Bad,
\* with two gains
C6_Witness ==
    /\ nLoaded = 1
    /\ Len(trades) = 6
    /\ trades[1].TradingState = "Good"
    /\ trades[4].TradingState = "Neutral"
    /\ trades[5].TradingState = "Good"
    /\ trades[6].TradingState = "Bad"
    /\ trades[1].Gain = 0
    /\ trades[2].Gain = 120
    /\ trades[6].Gain = -50

\* the rows but the last
Front(df) == SubSeq(df, 1, Len(df) - 1)

Appends == SeqsUpTo(Outcomes, 5) \ {<<>>}

RECURSIVE AppendAll(_, _)
\* the log after submitting the outcomes of c one after the other
AppendAll(df, c) ==
    IF c = <<>> THEN df
    ELSE AppendAll(UpdatedDf(df, NewTrade(Len(df) + 1, Head(c), 0)), Tail(c))

\* C8: the prediction with no history is Neutral, each of Good, Neutral and
\* Bad is reached by some sequence of appends, and no state is absorbing:
\* from every reachable log some continuation of appends changes the
\* prediction.
C8_NoAbsorbingState ==
    /\ trades = <<>> =>
          /\ predict_state(trades)[1] = "Neutral"
          /\ \A st \in States :
                \E c \in Appends : predict_state(AppendAll(trades, c))[1] = st
    /\ \E c \in Appends :
          predict_state(AppendAll(trades, c))[1] # predict_state(trades)[1]

\* a log appended from nothing that was predicted Neutral, then Bad, then Good
C8_Witness ==
    /\ nLoaded = 0
    /\ Len(trades) = 6
    /\ trades[4].TradingState = "Neutral"
    /\ trades[5].TradingState = "Bad"
    /\ trades[6].TradingState = "Good"
    /\ prediction = <<"Good", 90>>

\* C9: once the log holds at least 5 records predict_state never returns
\* Neutral; every record appended at position 5 or later is stored Good or
\* Bad, and Neutral is stored only for records appended while the log had
\* fewer than 5 trades.
C9_NoNeutralFromFive ==
    /\ Len(trades) >= 5 =>
          /\ predict_state(trades)[1] \in {"Good", "Bad"}
          /\ prediction[1] \in {"Good", "Bad"}
    /\ \A i \in (nLoaded + 1)..Len(trades) :
          /\ i >= 5 => trades[i].TradingState \in {"Good", "Bad"}
          /\ trades[i].TradingState = "Neutral" => i < 5

\* four appended records stored Neutral, then a fifth and a sixth stored
\* after windows of 2 and of 3 wins
C9_Witness ==
    /\ nLoaded = 0
    /\ Outs = <<0, 1, 1, 0, 0, 1>>
    /\ \A i \in 1..4 : trades[i].TradingState = "Neutral"
    /\ trades[5].TradingState = "Bad"
    /\ trades[6].TradingState = "Good"

====
